---- MODULE Spec2Model ----
(***************************************************************************)
(* Rule-based itinerary engine of the travel planner                       *)
(* (src/travel_planner/itinerary.py).                                      *)
(*                                                                         *)
(* An invocation of generate_itinerary is a small state machine: Invoke    *)
(* parses and normalises the arguments, selects the activity pool and      *)
(* builds the two cycles; DrawSlot is one pass of the inner slot loop;     *)
(* FinishDay closes a day; Return derives the summary strings and hands    *)
(* the plan back.  Several invocations (Calls) may be in flight at once.   *)
(*                                                                         *)
(* Text is modelled as a sequence of tokens: the destination is a sequence *)
(* of characters (so that strip() is computed), joined and formatted       *)
(* strings are the sequence of their pieces.                               *)
(***************************************************************************)
EXTENDS Integers, Sequences, FiniteSets, TLC

VARIABLES pc, args, raised, safe_days, normalized_destination,
          normalized_interests, guardrail_summary, constrained_pool,
          activity_cycle, interest_cycle, day_index, slot_details,
          day_plans, result

vars == <<pc, args, raised, safe_days, normalized_destination,
          normalized_interests, guardrail_summary, constrained_pool,
          activity_cycle, interest_cycle, day_index, slot_details,
          day_plans, result>>

(***************************************************************************)
(* Bounds of the model.                                                    *)
(***************************************************************************)
NumCalls == 2
DaySlack == 15
SmallDays == 3
MaxInterests == 3
MaxGuardrails == 2

Calls == 1..NumCalls

(***************************************************************************)
(* Program constants.                                                      *)
(***************************************************************************)
MIN_DAYS == 1
MAX_DAYS == 30
DEFAULT_DAYS == 1
DEFAULT_DURATION == 2
DEFAULT_INTEREST_COUNT == 3

(***************************************************************************)
(* The catalog (travel_planner/data.py): a fixture with the shape the      *)
(* data model prescribes.  Four interest labels, so that the first three   *)
(* differ from the whole list; "Art" has no activity, so that the interest *)
(* scope can come out empty.                                               *)
(***************************************************************************)
INTEREST_OPTIONS == <<"History", "Food", "Nature", "Art">>

DEFAULT_DAILY_STRUCTURE == <<"Morning", "Afternoon", "Evening">>

ACTIVITY_LIBRARY ==
  << [name |-> "Old Town Walk", category |-> "History",
      description |-> "Guided walk through the old quarter.",
      duration_hours |-> 3, tip |-> "Wear comfortable shoes.",
      tags |-> {"outdoor", "walking"}],
     [name |-> "City Museum", category |-> "History",
      description |-> "Hands-on exhibits on the city's past.",
      duration_hours |-> 2, tip |-> "Book timed tickets.",
      tags |-> {"indoor", "kid"}],
     [name |-> "Food Market", category |-> "Food",
      description |-> "Graze through the covered market.",
      duration_hours |-> 2, tip |-> "Bring cash.",
      tags |-> {"indoor", "budget", "kid"}],
     [name |-> "Wine Tasting", category |-> "Food",
      description |-> "Cellar tasting of regional wines.",
      duration_hours |-> 1, tip |-> "Reserve ahead.",
      tags |-> {"indoor", "alcohol"}],
     [name |-> "Park Hike", category |-> "Nature",
      description |-> "Loop trail through the hill park.",
      duration_hours |-> 4, tip |-> "Start early.",
      tags |-> {"outdoor", "walking", "kid"}] >>

GUARDRAIL_RULES ==
  [g \in {"kid-friendly", "indoor only", "no walking", "budget"} |->
     CASE g = "kid-friendly" -> [require_tags |-> {"kid"}, exclude_tags |-> {"alcohol"}]
       [] g = "indoor only"  -> [require_tags |-> {"indoor"}, exclude_tags |-> {}]
       [] g = "no walking"   -> [require_tags |-> {}, exclude_tags |-> {"walking"}]
       [] g = "budget"       -> [require_tags |-> {"budget"}, exclude_tags |-> {}]]

(***************************************************************************)
(* Generic helpers.                                                        *)
(***************************************************************************)
Range(s) == {s[i] : i \in DOMAIN s}

Min(a, b) == IF a <= b THEN a ELSE b

Max(a, b) == IF a >= b THEN a ELSE b

\* dict.get(key, default)
Get(d, key, default) == IF key \in DOMAIN d THEN d[key] ELSE default

\* sep.join(parts): the pieces with the separator between neighbours
RECURSIVE Join(_, _)
Join(parts, sep) ==
  IF Len(parts) = 0 THEN <<>>
  ELSE IF Len(parts) = 1 THEN <<parts[1]>>
  ELSE <<parts[1], sep>> \o Join(Tail(parts), sep)

\* list(dict.fromkeys(seq)): first occurrences, in order
RECURSIVE FromKeys(_)
FromKeys(s) ==
  IF Len(s) = 0 THEN <<>>
  ELSE LET init == SubSeq(s, 1, Len(s) - 1)
           last == s[Len(s)]
       IN IF last \in Range(init) THEN FromKeys(init)
          ELSE Append(FromKeys(init), last)

(***************************************************************************)
(* str.strip() and int() as Python computes them.                          *)
(***************************************************************************)
Whitespace == {" "}

Digits == {"0", "1", "2", "3", "4", "5", "6", "7", "8", "9"}

DigitVal(ch) ==
  CASE ch = "0" -> 0 [] ch = "1" -> 1 [] ch = "2" -> 2 [] ch = "3" -> 3
    [] ch = "4" -> 4 [] ch = "5" -> 5 [] ch = "6" -> 6 [] ch = "7" -> 7
    [] ch = "8" -> 8 [] ch = "9" -> 9

RECURSIVE LStrip(_)
LStrip(s) ==
  IF Len(s) > 0 /\ s[1] \in Whitespace THEN LStrip(Tail(s)) ELSE s

RECURSIVE RStrip(_)
RStrip(s) ==
  IF Len(s) > 0 /\ s[Len(s)] \in Whitespace
  THEN RStrip(SubSeq(s, 1, Len(s) - 1)) ELSE s

Strip(s) == RStrip(LStrip(s))

RECURSIVE DigitsValue(_)
DigitsValue(s) ==
  IF Len(s) = 0 THEN 0
  ELSE 10 * DigitsValue(SubSeq(s, 1, Len(s) - 1)) + DigitVal(s[Len(s)])

\* int(text): surrounding whitespace dropped, optional sign, decimal digits;
\* anything else is a ValueError
IntOfText(s) ==
  LET t == Strip(s)
      signed == Len(t) > 0 /\ t[1] \in {"+", "-"}
      body == IF signed THEN Tail(t) ELSE t
  IN IF Len(body) > 0 /\ Range(body) \subseteq Digits
     THEN [exc |-> "none",
           v |-> IF signed /\ t[1] = "-" THEN 0 - DigitsValue(body) ELSE DigitsValue(body)]
     ELSE [exc |-> "ValueError", v |-> 0]

\* int(x) for a float given in tenths: truncation towards zero
Truncate(tenths) ==
  IF tenths >= 0 THEN tenths \div 10 ELSE 0 - ((0 - tenths) \div 10)

\* int(days) for the kinds of value a caller can pass
PyInt(days) ==
  CASE days.t = "int"   -> [exc |-> "none", v |-> days.v]
    [] days.t = "str"   -> IntOfText(days.s)
    [] days.t = "float" -> [exc |-> "none", v |-> Truncate(days.tenths)]
    [] days.t = "nan"   -> [exc |-> "ValueError", v |-> 0]
    [] days.t = "inf"   -> [exc |-> "OverflowError", v |-> 0]
    [] days.t = "none"  -> [exc |-> "TypeError", v |-> 0]

(***************************************************************************)
(* Argument normalisation (generate_itinerary, lines 69-77).               *)
(***************************************************************************)
\* the exception int(days) lets escape the try block, "none" if there is none
ParseEscapes(days) ==
  IF PyInt(days).exc \in {"none", "TypeError", "ValueError"}
  THEN "none" ELSE PyInt(days).exc

ParseDays(days) ==
  IF PyInt(days).exc = "none" THEN PyInt(days).v ELSE DEFAULT_DAYS

\* variant: the lower clamp forgotten
SafeDaysNoFloor(parsed_days) == Min(parsed_days, MAX_DAYS)

SafeDays(parsed_days) == Max(MIN_DAYS, Min(parsed_days, MAX_DAYS))

NormalizeDestination(destination) ==
  IF Strip(destination) # <<>> THEN Strip(destination)
  ELSE <<"Your Destination">>

\* variant: the default is the whole list of interest options
_normalize_interests_all_options(interests) ==
  LET Recognised(x) == x \in Range(INTEREST_OPTIONS)
      normalized == SelectSeq(interests, Recognised)
  IN IF normalized # <<>> THEN normalized ELSE INTEREST_OPTIONS

\* variant: repeated labels are dropped while normalising
_normalize_interests_distinct(interests) ==
  LET Recognised(x) == x \in Range(INTEREST_OPTIONS)
      normalized == FromKeys(SelectSeq(interests, Recognised))
  IN IF normalized # <<>> THEN normalized
     ELSE SubSeq(INTEREST_OPTIONS, 1, Min(DEFAULT_INTEREST_COUNT, Len(INTEREST_OPTIONS)))

_normalize_interests(interests) ==
  LET Recognised(x) == x \in Range(INTEREST_OPTIONS)
      normalized == SelectSeq(interests, Recognised)
  IN IF normalized # <<>> THEN normalized
     ELSE SubSeq(INTEREST_OPTIONS, 1, Min(DEFAULT_INTEREST_COUNT, Len(INTEREST_OPTIONS)))

_extract_guardrail_rules(guardrails) ==
  LET matched == {g \in Range(guardrails) : g \in DOMAIN GUARDRAIL_RULES}
  IN [require_tags |-> UNION {Get(GUARDRAIL_RULES[g], "require_tags", {}) : g \in matched},
      exclude_tags |-> UNION {Get(GUARDRAIL_RULES[g], "exclude_tags", {}) : g \in matched}]

(***************************************************************************)
(* Activity selection (lines 32-53 and 79-89).                             *)
(***************************************************************************)
_filter_by_interest(interests) ==
  LET interest_set == Range(interests)
      InScope(activity) == activity.category \in interest_set
      scoped == SelectSeq(ACTIVITY_LIBRARY, InScope)
  IN IF interest_set = {} THEN ACTIVITY_LIBRARY
     ELSE IF scoped # <<>> THEN scoped ELSE ACTIVITY_LIBRARY

_apply_guardrails(activities, require_tags, exclude_tags) ==
  LET Keep(activity) ==
        LET tags == Get(activity, "tags", {})
        IN /\ ~(exclude_tags # {} /\ tags \cap exclude_tags # {})
           /\ ~(require_tags # {} /\ ~(require_tags \subseteq tags))
  IN SelectSeq(activities, Keep)

\* variant: the interest scope given up before the required tags
SelectPoolInterestsFirst(interest_pool, constraints) ==
  LET first == _apply_guardrails(interest_pool, constraints.require_tags,
                                 constraints.exclude_tags)
      second == IF first = <<>>
                THEN _apply_guardrails(ACTIVITY_LIBRARY, constraints.require_tags,
                                       constraints.exclude_tags)
                ELSE first
      third == IF second = <<>> /\ constraints.require_tags # {}
               THEN _apply_guardrails(interest_pool, {}, constraints.exclude_tags)
               ELSE second
  IN IF third = <<>> THEN ACTIVITY_LIBRARY ELSE third

\* variant: the retry drops the excluded tags along with the required ones
SelectPoolRelaxAll(interest_pool, constraints) ==
  LET first == _apply_guardrails(interest_pool, constraints.require_tags,
                                 constraints.exclude_tags)
      second == IF first = <<>> /\ constraints.require_tags # {}
                THEN _apply_guardrails(interest_pool, {}, {})
                ELSE first
  IN IF second = <<>> THEN ACTIVITY_LIBRARY ELSE second

\* variant: the last resort (the whole catalog) left out
SelectPoolNoLastResort(interest_pool, constraints) ==
  LET first == _apply_guardrails(interest_pool, constraints.require_tags,
                                 constraints.exclude_tags)
  IN IF first = <<>> /\ constraints.require_tags # {}
     THEN _apply_guardrails(interest_pool, {}, constraints.exclude_tags)
     ELSE first

SelectPool(interest_pool, constraints) ==
  LET first == _apply_guardrails(interest_pool, constraints.require_tags,
                                 constraints.exclude_tags)
      second == IF first = <<>> /\ constraints.require_tags # {}
                THEN _apply_guardrails(interest_pool, {}, constraints.exclude_tags)
                ELSE first
  IN IF second = <<>> THEN ACTIVITY_LIBRARY ELSE second

(***************************************************************************)
(* Assembly (lines 91-117) and summary (lines 56-59, 119-134).             *)
(***************************************************************************)
\* variant: one module-level pair of cycles shared by all invocations
CycleCellShared(c) == 1

\* each invocation owns the cycles it builds
CycleCell(c) == c

\* next(cycle): position after a draw from a cycle over n elements
AdvanceActivity(pos, n) == (pos + 1) % n

\* variant: the interest cycle drawn in the slot loop, once per slot
AdvanceInterestPerSlot(pos, m) == (pos + Len(DEFAULT_DAILY_STRUCTURE)) % m

AdvanceInterest(pos, m) == (pos + 1) % m

\* variant: the activity cycle rebuilt for every day
ActivityCycleRebuiltPerDay(pos) == 0

\* the activity cycle is built before the day loop and nothing in the loop
\* rebuilds it: a day ends with the cycle where the last draw left it
ActivityCycleAtDayEnd(pos) == pos

SlotEntry(slot, activity) ==
  [slot |-> slot,
   name |-> activity.name,
   category |-> activity.category,
   description |-> activity.description,
   duration_hours |-> Get(activity, "duration_hours", DEFAULT_DURATION),
   tip |-> Get(activity, "tip", "Use this moment to slow down and take photos.")]

_daily_tip(items, guardrails) ==
  LET guardrail_text == IF guardrails # <<>> THEN Join(guardrails, ", ")
                        ELSE <<"flexible day">>
      highlight == IF items # <<>> THEN items[1].tip
                   ELSE "Mix high-energy stops with slow moments."
  IN <<highlight, " Guardrails considered: ">> \o guardrail_text \o <<".">>

\* variant: days numbered from zero
DayNumberFromZero(index) == index

DayNumber(index) == index + 1

Theme(daily_interest) == <<daily_interest, " focus">>

MoreDays(index, days) == index < days

GuardrailMessage(guardrails) ==
  IF guardrails # <<>>
  THEN <<"Guardrails locked in: ">> \o Join(guardrails, ", ")
  ELSE <<"No guardrails selected. Using balanced variety.">>

\* variant: the labels joined as they come
HighlightTextRaw(interests) == Join(interests, ", ")

HighlightText(interests) == Join(FromKeys(interests), ", ")

(***************************************************************************)
(* Inputs.                                                                 *)
(***************************************************************************)
RECURSIVE SeqsUpTo(_, _)
SeqsUpTo(S, n) ==
  IF n = 0 THEN {<<>>}
  ELSE LET shorter == SeqsUpTo(S, n - 1)
       IN shorter \cup {Append(s, x) : s \in shorter, x \in S}

IntDays == {[t |-> "int", v |-> n] : n \in (MIN_DAYS - DaySlack)..(MAX_DAYS + DaySlack)}

TextDays ==
  {[t |-> "str", s |-> x] :
     x \in {<<"3">>, <<"4", "5">>, <<"-", "5">>, <<" ", "2", " ">>,
            <<"a", "b", "c">>, <<>>, <<"2", ".", "5">>}}

FloatDays == {[t |-> "float", tenths |-> k] : k \in {27, 0 - 5, 309}}

OtherDays == {[t |-> "nan"], [t |-> "inf"], [t |-> "none"]}

DayValues == IntDays \cup TextDays \cup FloatDays \cup OtherDays

FewDays == {[t |-> "int", v |-> n] : n \in 1..SmallDays}

Destinations == {<<>>, <<" ", " ">>, <<"R", "o", "m", "e">>, <<" ", "R", "i", "o", " ">>}

\* two recognised labels and one the catalog does not know
InterestLabels == {"History", "Nature", "Shopping"}

\* two known guardrails and one the rule table does not know
GuardrailLabels == {"budget", "no walking", "pet-friendly"}

InterestLists == SeqsUpTo(InterestLabels, MaxInterests)

GuardrailLists == SeqsUpTo(GuardrailLabels, MaxGuardrails)

Arguments(dests, days, ints, guards) ==
  {[destination |-> d, days |-> n, interests |-> i, guardrails |-> g] :
     d \in dests, n \in days, i \in ints, g \in guards}

\* every kind of day count with a few preference lists, every preference
\* list with a few day counts, every destination with one of each
Inputs ==
  Arguments({<<"R", "o", "m", "e">>}, DayValues,
            {<<>>, <<"History">>, <<"Food", "Nature">>, <<"Art">>},
            {<<>>, <<"kid-friendly">>, <<"indoor only">>})
  \cup Arguments({<<"R", "o", "m", "e">>}, FewDays, InterestLists, GuardrailLists)
  \cup Arguments(Destinations, {[t |-> "int", v |-> 1]}, {<<>>}, {<<>>})

ConcInputs ==
  Arguments({<<"R", "o", "m", "e">>},
            {[t |-> "int", v |-> n] : n \in 1..2},
            {<<"History">>, <<"Food", "Nature">>},
            {<<>>, <<"kid-friendly">>})

(***************************************************************************)
(* The state machine.                                                      *)
(***************************************************************************)
Init ==
  /\ pc = [c \in Calls |-> "idle"]
  /\ args = [c \in Calls |-> <<>>]
  /\ raised = [c \in Calls |-> "none"]
  /\ safe_days = [c \in Calls |-> 0]
  /\ normalized_destination = [c \in Calls |-> <<>>]
  /\ normalized_interests = [c \in Calls |-> <<>>]
  /\ guardrail_summary = [c \in Calls |-> <<>>]
  /\ constrained_pool = [c \in Calls |-> <<>>]
  /\ activity_cycle = [c \in Calls |-> 0]
  /\ interest_cycle = [c \in Calls |-> 0]
  /\ day_index = [c \in Calls |-> 0]
  /\ slot_details = [c \in Calls |-> <<>>]
  /\ day_plans = [c \in Calls |-> <<>>]
  /\ result = [c \in Calls |-> <<>>]

\* lines 62-96: the call, up to the head of the day loop
Invoke(c, a) ==
  /\ pc[c] = "idle"
  /\ args' = [args EXCEPT ![c] = <<a>>]
  /\ result' = [result EXCEPT ![c] = <<>>]
  /\ day_index' = [day_index EXCEPT ![c] = 0]
  /\ slot_details' = [slot_details EXCEPT ![c] = <<>>]
  /\ day_plans' = [day_plans EXCEPT ![c] = <<>>]
  /\ IF ParseEscapes(a.days) # "none"
     THEN /\ pc' = [pc EXCEPT ![c] = "error"]
          /\ raised' = [raised EXCEPT ![c] = ParseEscapes(a.days)]
          /\ safe_days' = [safe_days EXCEPT ![c] = 0]
          /\ normalized_destination' = [normalized_destination EXCEPT ![c] = <<>>]
          /\ normalized_interests' = [normalized_interests EXCEPT ![c] = <<>>]
          /\ guardrail_summary' = [guardrail_summary EXCEPT ![c] = <<>>]
          /\ constrained_pool' = [constrained_pool EXCEPT ![c] = <<>>]
          /\ UNCHANGED <<activity_cycle, interest_cycle>>
     ELSE LET interests == _normalize_interests(a.interests)
          IN /\ pc' = [pc EXCEPT ![c] = "days"]
             /\ raised' = [raised EXCEPT ![c] = "none"]
             /\ safe_days' = [safe_days EXCEPT ![c] = SafeDays(ParseDays(a.days))]
             /\ normalized_destination' =
                  [normalized_destination EXCEPT ![c] = NormalizeDestination(a.destination)]
             /\ normalized_interests' = [normalized_interests EXCEPT ![c] = interests]
             /\ guardrail_summary' = [guardrail_summary EXCEPT ![c] = a.guardrails]
             /\ constrained_pool' =
                  [constrained_pool EXCEPT ![c] =
                     SelectPool(_filter_by_interest(interests),
                                _extract_guardrail_rules(a.guardrails))]
             /\ activity_cycle' = [activity_cycle EXCEPT ![CycleCell(c)] = 0]
             /\ interest_cycle' = [interest_cycle EXCEPT ![CycleCell(c)] = 0]

\* lines 97-108: one slot of the current day; next() on a cycle over an
\* empty pool raises StopIteration
DrawSlot(c) ==
  /\ pc[c] = "days"
  /\ MoreDays(day_index[c], safe_days[c])
  /\ Len(slot_details[c]) < Len(DEFAULT_DAILY_STRUCTURE)
  /\ IF constrained_pool[c] = <<>>
     THEN /\ pc' = [pc EXCEPT ![c] = "error"]
          /\ raised' = [raised EXCEPT ![c] = "StopIteration"]
          /\ UNCHANGED <<activity_cycle, slot_details>>
     ELSE LET slot == DEFAULT_DAILY_STRUCTURE[Len(slot_details[c]) + 1]
              pos == activity_cycle[CycleCell(c)]
              activity == constrained_pool[c][(pos % Len(constrained_pool[c])) + 1]
          IN /\ slot_details' =
                  [slot_details EXCEPT ![c] = Append(@, SlotEntry(slot, activity))]
             /\ activity_cycle' =
                  [activity_cycle EXCEPT
                     ![CycleCell(c)] = AdvanceActivity(pos, Len(constrained_pool[c]))]
             /\ UNCHANGED <<pc, raised>>
  /\ UNCHANGED <<args, safe_days, normalized_destination, normalized_interests,
                 guardrail_summary, constrained_pool, interest_cycle, day_index,
                 day_plans, result>>

\* lines 109-117: the day's theme and tip, the day appended
FinishDay(c) ==
  /\ pc[c] = "days"
  /\ MoreDays(day_index[c], safe_days[c])
  /\ Len(slot_details[c]) = Len(DEFAULT_DAILY_STRUCTURE)
  /\ LET pos == interest_cycle[CycleCell(c)]
         m == Len(normalized_interests[c])
         daily_interest == normalized_interests[c][(pos % m) + 1]
     IN /\ day_plans' =
             [day_plans EXCEPT ![c] =
                Append(@, [day |-> DayNumber(day_index[c]),
                           theme |-> Theme(daily_interest),
                           items |-> slot_details[c],
                           daily_tip |-> _daily_tip(slot_details[c], guardrail_summary[c])])]
        /\ interest_cycle' = [interest_cycle EXCEPT ![CycleCell(c)] = AdvanceInterest(pos, m)]
  /\ activity_cycle' = [activity_cycle EXCEPT ![CycleCell(c)] = ActivityCycleAtDayEnd(@)]
  /\ day_index' = [day_index EXCEPT ![c] = @ + 1]
  /\ slot_details' = [slot_details EXCEPT ![c] = <<>>]
  /\ UNCHANGED <<pc, args, raised, safe_days, normalized_destination,
                 normalized_interests, guardrail_summary, constrained_pool,
                 result>>

\* lines 119-134: the summary strings and the returned plan
Return(c) ==
  /\ pc[c] = "days"
  /\ ~MoreDays(day_index[c], safe_days[c])
  /\ result' =
       [result EXCEPT ![c] =
          << [destination |-> normalized_destination[c],
              days |-> day_plans[c],
              interests |-> normalized_interests[c],
              guardrails |-> guardrail_summary[c],
              guardrail_message |-> GuardrailMessage(guardrail_summary[c]),
              highlight_text |-> HighlightText(normalized_interests[c])] >>]
  /\ pc' = [pc EXCEPT ![c] = "done"]
  /\ UNCHANGED <<args, raised, safe_days, normalized_destination,
                 normalized_interests, guardrail_summary, constrained_pool,
                 activity_cycle, interest_cycle, day_index, slot_details,
                 day_plans>>

\* the caller takes an argument tuple from its input space and calls
Call(c, inputs) ==
  /\ pc[c] = "idle"
  /\ \E a \in inputs : Invoke(c, a)

\* the caller is done with the outcome (a plan or an exception); the frame
\* and its cycles are gone and the caller is free to call again
Release(c) ==
  /\ pc[c] \in {"done", "error"}
  /\ pc' = [pc EXCEPT ![c] = "idle"]
  /\ args' = [args EXCEPT ![c] = <<>>]
  /\ raised' = [raised EXCEPT ![c] = "none"]
  /\ safe_days' = [safe_days EXCEPT ![c] = 0]
  /\ normalized_destination' = [normalized_destination EXCEPT ![c] = <<>>]
  /\ normalized_interests' = [normalized_interests EXCEPT ![c] = <<>>]
  /\ guardrail_summary' = [guardrail_summary EXCEPT ![c] = <<>>]
  /\ constrained_pool' = [constrained_pool EXCEPT ![c] = <<>>]
  /\ day_index' = [day_index EXCEPT ![c] = 0]
  /\ slot_details' = [slot_details EXCEPT ![c] = <<>>]
  /\ day_plans' = [day_plans EXCEPT ![c] = <<>>]
  /\ result' = [result EXCEPT ![c] = <<>>]
  /\ UNCHANGED <<activity_cycle, interest_cycle>>

\* one invocation at a time, over the full input space
Next ==
  \/ Call(1, Inputs)
  \/ DrawSlot(1)
  \/ FinishDay(1)
  \/ Return(1)
  \/ Release(1)

Spec == Init /\ [][Next]_vars

\* NumCalls invocations interleaved
NextConc ==
  \/ \E c \in Calls : Call(c, ConcInputs)
  \/ \E c \in Calls : DrawSlot(c)
  \/ \E c \in Calls : FinishDay(c)
  \/ \E c \in Calls : Return(c)
  \/ \E c \in Calls : Release(c)

SpecConc == Init /\ [][NextConc]_vars

(***************************************************************************)
(* The plan parser of the external generator (src/travel_planner/ai.py,    *)
(* _build_plan_from_json).  A decoded JSON value carries its kind; an      *)
(* object lists every key the parser reads, a key the response does not    *)
(* have being JAbsent.  A parser frame uses pc, args, raised, day_index,   *)
(* day_plans (structured_days) and result of the call frame.               *)
(***************************************************************************)
MaxAiDays == 2
MaxAiSlots == 2

JAbsent == [k |-> "absent"]

JNull == [k |-> "null"]

JStr(text) == [k |-> "str", s |-> text]

JNum(number) == [k |-> "num", n |-> number]

JList(elements) == [k |-> "list", items |-> elements]

JObj(fields) == [k |-> "obj", f |-> fields]

\* a string the parser computes itself, as its pieces
JText(pieces) == [k |-> "text", toks |-> pieces]

\* isinstance(value, dict)
IsDict(value) == value.k = "obj"

\* bool(value)
Truthy(value) ==
  CASE value.k = "null" -> FALSE
    [] value.k = "str"  -> value.s # ""
    [] value.k = "num"  -> value.n # 0
    [] value.k = "list" -> value.items # <<>>
    [] value.k = "obj"  -> \E key \in DOMAIN value.f : value.f[key] # JAbsent
    [] value.k = "text" -> value.toks # <<>>

\* obj.get(key, default)
PyGet(obj, key, default) ==
  IF obj.f[key] = JAbsent THEN default ELSE obj.f[key]

\* a or b
PyOr(a, b) == IF Truthy(a) THEN a ELSE b

\* iter(value) for the kinds the responses of the model hold in the places
\* the parser loops over: a list, a number or null
Iterate(value) ==
  CASE value.k = "list" -> [exc |-> "none", items |-> value.items]
    [] value.k = "num"  -> [exc |-> "TypeError", items |-> <<>>]
    [] value.k = "null" -> [exc |-> "TypeError", items |-> <<>>]

\* line 67: the value the day loop enumerates
DaysSource(payload) ==
  PyOr(PyGet(payload, "days", JList(<<>>)), PyGet(payload, "daily_plan", JList(<<>>)))

\* lines 71-81
DefaultSlots ==
  [i \in DOMAIN DEFAULT_DAILY_STRUCTURE |->
     [slot |-> JStr(DEFAULT_DAILY_STRUCTURE[i]),
      name |-> JStr("Free exploration"),
      category |-> JStr("Flexible"),
      description |-> JStr("Build your own moment in this slot."),
      duration_hours |-> JNum(DEFAULT_DURATION),
      tip |-> JStr("Use this pocket to rest or follow spontaneous inspiration.")]]

\* lines 86-88
SlotName(slot, normalized_slots) ==
  LET slot_name == PyOr(PyGet(slot, "slot", JNull), PyGet(slot, "time_block", JNull))
  IN IF Truthy(slot_name) THEN slot_name
     ELSE JStr(DEFAULT_DAILY_STRUCTURE[
                 (Len(normalized_slots) % Len(DEFAULT_DAILY_STRUCTURE)) + 1])

\* lines 83-98
RECURSIVE NormalizeSlots(_, _)
NormalizeSlots(slots, normalized_slots) ==
  IF slots = <<>> THEN normalized_slots
  ELSE LET slot == Head(slots)
       IN IF ~IsDict(slot) THEN NormalizeSlots(Tail(slots), normalized_slots)
          ELSE NormalizeSlots(Tail(slots),
                 Append(normalized_slots,
                   [slot |-> SlotName(slot, normalized_slots),
                    name |-> PyGet(slot, "name", JStr("Experience")),
                    category |-> PyGet(slot, "category", JStr("General")),
                    description |-> PyGet(slot, "description", JStr("")),
                    duration_hours |-> PyGet(slot, "duration_hours", JNum(DEFAULT_DURATION)),
                    tip |-> PyGet(slot, "tip", JStr("Capture a few photos."))]))

\* line 68
SlotsData(day) == IF IsDict(day) THEN PyGet(day, "slots", JList(<<>>)) ELSE JList(<<>>)

\* lines 69-98: the items of a day, or the exception the slot loop raises
DaySlots(day) ==
  IF ~Truthy(SlotsData(day)) THEN [exc |-> "none", items |-> DefaultSlots]
  ELSE IF Iterate(SlotsData(day)).exc # "none"
       THEN [exc |-> Iterate(SlotsData(day)).exc, items |-> <<>>]
       ELSE [exc |-> "none", items |-> NormalizeSlots(Iterate(SlotsData(day)).items, <<>>)]

\* line 105: day.get(...) with no isinstance guard
DailyTipOf(day) ==
  IF IsDict(day)
  THEN [exc |-> "none",
        v |-> PyGet(day, "daily_tip", JStr("Blend must-see icons with slow blocks."))]
  ELSE [exc |-> "AttributeError", v |-> JNull]

\* lines 100-107
StructuredDay(day, index) ==
  [day |-> IF IsDict(day) THEN PyGet(day, "day", JNum(index)) ELSE JNum(index),
   theme |-> IF IsDict(day) THEN PyGet(day, "theme", JStr("Balanced focus"))
             ELSE JStr("Balanced focus"),
   items |-> DaySlots(day).items,
   daily_tip |-> DailyTipOf(day).v]

\* line 61
AiHighlight(payload, interests) ==
  PyOr(PyOr(PyGet(payload, "highlight_text", JNull), JText(Join(FromKeys(interests), ", "))),
       JStr("Varied interests"))

\* lines 62-64
AiGuardrailMessage(payload, guardrails) ==
  PyOr(PyGet(payload, "guardrail_message", JNull),
       IF guardrails # <<>>
       THEN JText(<<"Guardrails locked in: ">> \o Join(guardrails, ", "))
       ELSE JStr("No guardrails selected."))

\* responses
SlotObject(slot, time_block, name, rest) ==
  JObj([slot |-> slot, time_block |-> time_block, name |-> name,
        category |-> rest, description |-> rest, duration_hours |-> rest,
        tip |-> rest])

AiSlotValues ==
  {JStr("note"),
   SlotObject(JAbsent, JAbsent, JAbsent, JAbsent),
   SlotObject(JStr("Morning"), JAbsent, JStr("Tram 28"), JStr("given")),
   SlotObject(JAbsent, JStr("Noon"), JStr("Lunch"), JAbsent)}

AiSlotLists == SeqsUpTo(AiSlotValues, MaxAiSlots)

DayObject(meta, slots) ==
  JObj([day |-> IF meta THEN JNum(7) ELSE JAbsent,
        theme |-> IF meta THEN JStr("Harbour focus") ELSE JAbsent,
        daily_tip |-> IF meta THEN JStr("Carry water.") ELSE JAbsent,
        slots |-> slots])

AiDayEntries ==
  {JStr("rest day"), JNull}
  \cup {DayObject(FALSE, JList(l)) : l \in AiSlotLists}
  \cup {DayObject(FALSE, JAbsent), DayObject(FALSE, JNum(5)),
        DayObject(TRUE, JAbsent),
        DayObject(TRUE, JList(<<SlotObject(JAbsent, JAbsent, JStr("Walk"), JAbsent)>>))}

\* entries that stand for their kind in the longer responses
AiCoreEntries ==
  {JStr("rest day"),
   DayObject(FALSE, JAbsent),
   DayObject(TRUE, JList(<<SlotObject(JAbsent, JAbsent, JStr("Walk"), JAbsent)>>))}

\* every entry on its own, and the lists of the core entries
AiDayLists == {<<e>> : e \in AiDayEntries} \cup SeqsUpTo(AiCoreEntries, MaxAiDays)

Payload(days, daily_plan, highlight_text, guardrail_message, ai_summary, summary) ==
  JObj([days |-> days, daily_plan |-> daily_plan, highlight_text |-> highlight_text,
        guardrail_message |-> guardrail_message, ai_summary |-> ai_summary,
        summary |-> summary])

OneDay == JList(<<DayObject(TRUE, JAbsent)>>)

AiPayloads ==
  {Payload(JList(l), JAbsent, JAbsent, JAbsent, JAbsent, JAbsent) : l \in AiDayLists}
  \cup {Payload(JAbsent, JAbsent, JAbsent, JAbsent, JAbsent, JAbsent),
        Payload(JAbsent, OneDay, JAbsent, JAbsent, JAbsent, JAbsent),
        Payload(JList(<<>>), OneDay, JAbsent, JAbsent, JAbsent, JAbsent),
        Payload(JNull, JNull, JAbsent, JAbsent, JAbsent, JAbsent),
        Payload(JNum(3), JAbsent, JAbsent, JAbsent, JAbsent, JAbsent),
        Payload(OneDay, JAbsent, JStr("AI picks"), JStr("AI rules"), JStr("Short trip."), JAbsent),
        Payload(OneDay, JAbsent, JStr(""), JAbsent, JAbsent, JStr("Fallback summary."))}

AiInputs ==
  {[payload |-> p, destination |-> a.d, interests |-> a.i, guardrails |-> a.g] :
     p \in AiPayloads,
     a \in {[d |-> <<" ", "R", "i", "o", " ">>, i |-> <<"History", "History">>,
             g |-> <<"budget">>],
            [d |-> <<>>, i |-> <<>>, g |-> <<>>]}}

\* the entries of the day loop of a parser frame
AiEntries(c) == Iterate(DaysSource(args[c][1].payload)).items

\* lines 55-67: the call, up to the head of the day loop
BuildPlan(c, a) ==
  /\ pc[c] = "idle"
  /\ args' = [args EXCEPT ![c] = <<a>>]
  /\ IF Iterate(DaysSource(a.payload)).exc # "none"
     THEN /\ pc' = [pc EXCEPT ![c] = "error"]
          /\ raised' = [raised EXCEPT ![c] = Iterate(DaysSource(a.payload)).exc]
     ELSE /\ pc' = [pc EXCEPT ![c] = "ai_days"]
          /\ raised' = [raised EXCEPT ![c] = "none"]
  /\ day_index' = [day_index EXCEPT ![c] = 0]
  /\ day_plans' = [day_plans EXCEPT ![c] = <<>>]
  /\ result' = [result EXCEPT ![c] = <<>>]
  /\ UNCHANGED <<safe_days, normalized_destination, normalized_interests,
                 guardrail_summary, constrained_pool, activity_cycle,
                 interest_cycle, slot_details>>

\* the external generator's decoded response reaches the parser (line 171)
CallParser(c, inputs) ==
  /\ pc[c] = "idle"
  /\ \E a \in inputs : BuildPlan(c, a)

\* lines 67-107: one entry of the day loop
ParseDay(c) ==
  /\ pc[c] = "ai_days"
  /\ day_index[c] < Len(AiEntries(c))
  /\ LET day == AiEntries(c)[day_index[c] + 1]
         index == day_index[c] + 1
     IN IF DaySlots(day).exc # "none"
        THEN /\ pc' = [pc EXCEPT ![c] = "error"]
             /\ raised' = [raised EXCEPT ![c] = DaySlots(day).exc]
             /\ UNCHANGED <<day_index, day_plans>>
        ELSE IF DailyTipOf(day).exc # "none"
        THEN /\ pc' = [pc EXCEPT ![c] = "error"]
             /\ raised' = [raised EXCEPT ![c] = DailyTipOf(day).exc]
             /\ UNCHANGED <<day_index, day_plans>>
        ELSE /\ day_plans' = [day_plans EXCEPT ![c] = Append(@, StructuredDay(day, index))]
             /\ day_index' = [day_index EXCEPT ![c] = index]
             /\ UNCHANGED <<pc, raised>>
  /\ UNCHANGED <<args, safe_days, normalized_destination, normalized_interests,
                 guardrail_summary, constrained_pool, activity_cycle,
                 interest_cycle, slot_details, result>>

\* lines 109-117: the returned plan
ReturnParsed(c) ==
  /\ pc[c] = "ai_days"
  /\ day_index[c] = Len(AiEntries(c))
  /\ LET a == args[c][1]
     IN result' =
          [result EXCEPT ![c] =
             << [destination |-> NormalizeDestination(a.destination),
                 days |-> day_plans[c],
                 interests |-> a.interests,
                 guardrails |-> a.guardrails,
                 guardrail_message |-> AiGuardrailMessage(a.payload, a.guardrails),
                 highlight_text |-> AiHighlight(a.payload, a.interests),
                 ai_summary |-> PyOr(PyGet(a.payload, "ai_summary", JNull),
                                     PyGet(a.payload, "summary", JNull))] >>]
  /\ pc' = [pc EXCEPT ![c] = "done"]
  /\ UNCHANGED <<args, raised, safe_days, normalized_destination,
                 normalized_interests, guardrail_summary, constrained_pool,
                 activity_cycle, interest_cycle, day_index, slot_details,
                 day_plans>>

\* the parser on one response at a time
NextAi ==
  \/ CallParser(1, AiInputs)
  \/ ParseDay(1)
  \/ ReturnParsed(1)
  \/ Release(1)

SpecAi == Init /\ [][NextAi]_vars

(***************************************************************************)
(* Vocabulary of the properties.                                           *)
(***************************************************************************)
Returned(c) == pc[c] = "done"

Plan(c) == result[c][1]

Arg(c) == args[c][1]

NumSlots == Len(DEFAULT_DAILY_STRUCTURE)

IsIntDays(days) == days.t = "int"

\* a string without a single digit, or no value at all
NonNumericDays(days) ==
  \/ days.t = "none"
  \/ days.t = "str" /\ Range(days.s) \cap Digits = {}

Count(s, x) == Cardinality({i \in DOMAIN s : s[i] = x})

NoRepeats(s) == \A i, j \in DOMAIN s : s[i] = s[j] => i = j

FirstIndex(s, x) == CHOOSE i \in DOMAIN s : s[i] = x /\ \A k \in 1..(i - 1) : s[k] # x

RecognisedLabels == {"History", "Food", "Nature", "Art"}

\* C1: a day count d in 1..30 gives exactly d days numbered 1..d in order,
\* each with one item per daily slot, the slot labels in the configured order
ExactDaysAndSlots ==
  \A c \in Calls :
    (Returned(c) /\ IsIntDays(Arg(c).days) /\ Arg(c).days.v \in 1..30) =>
      /\ Len(Plan(c).days) = Arg(c).days.v
      /\ \A i \in DOMAIN Plan(c).days :
           /\ Plan(c).days[i].day = i
           /\ Len(Plan(c).days[i].items) = NumSlots
           /\ \A j \in 1..NumSlots :
                Plan(c).days[i].items[j].slot = DEFAULT_DAILY_STRUCTURE[j]

ThirtyDayPlanReturned ==
  \E c \in Calls :
    /\ Returned(c)
    /\ IsIntDays(Arg(c).days) /\ Arg(c).days.v = 30
    /\ Len(Plan(c).days) = 30
    /\ Plan(c).days[30].items[3].slot = "Evening"

\* C2: an integer day count below 1 gives a plan of exactly 1 day, one above
\* 30 a plan of exactly 30 days, a non-numeric or missing one exactly 1 day
DayCountClamped ==
  \A c \in Calls :
    /\ (args[c] # <<>> /\ (IsIntDays(Arg(c).days) \/ NonNumericDays(Arg(c).days)))
         => pc[c] # "error"
    /\ Returned(c) =>
         /\ (IsIntDays(Arg(c).days) /\ Arg(c).days.v < 1) => Len(Plan(c).days) = 1
         /\ (IsIntDays(Arg(c).days) /\ Arg(c).days.v > 30) => Len(Plan(c).days) = 30
         /\ NonNumericDays(Arg(c).days) => Len(Plan(c).days) = 1

ClampedPlanReturned ==
  \E c \in Calls :
    /\ Returned(c)
    /\ \/ IsIntDays(Arg(c).days) /\ Arg(c).days.v = 0 - 5 /\ Len(Plan(c).days) = 1
       \/ IsIntDays(Arg(c).days) /\ Arg(c).days.v = 45 /\ Len(Plan(c).days) = 30
       \/ Arg(c).days.t = "none" /\ Len(Plan(c).days) = 1

\* C3: generate_itinerary raises no error for any input: no invocation ends
\* in an error state, and a returned plan has all six fields
NeverRaises ==
  \A c \in Calls :
    /\ pc[c] # "error"
    /\ Returned(c) =>
         DOMAIN Plan(c) = {"destination", "days", "interests", "guardrails",
                           "guardrail_message", "highlight_text"}

\* C4: with a non-empty catalog the pool handed to the cyclic assignment is
\* never empty, whatever the interests and guardrails, and every day of the
\* plan has the full number of slots
PoolNeverEmpty ==
  ACTIVITY_LIBRARY # <<>> =>
    \A c \in Calls :
      /\ pc[c] \in {"days", "done"} => constrained_pool[c] # <<>>
      /\ raised[c] # "StopIteration"
      /\ Returned(c) =>
           \A i \in DOMAIN Plan(c).days : Len(Plan(c).days[i].items) = NumSlots

\* the guardrails filter out every activity of the interest scope, with and
\* without the required tags
EverythingFilteredOut(a) ==
  LET scope == _filter_by_interest(_normalize_interests(a.interests))
      rules == _extract_guardrail_rules(a.guardrails)
  IN /\ rules.require_tags # {}
     /\ rules.exclude_tags # {}
     /\ \A k \in DOMAIN scope : scope[k].tags \cap rules.exclude_tags # {}

FilteredOutPlanReturned ==
  \E c \in Calls :
    /\ Returned(c)
    /\ EverythingFilteredOut(Arg(c))
    /\ constrained_pool[c] # <<>>
    /\ Len(Plan(c).days) >= 2

\* C5: the interests field holds only recognised labels, in the caller's
\* order; with no recognised label supplied it is the catalog's first three
RECURSIVE KeepRecognised(_)
KeepRecognised(s) ==
  IF s = <<>> THEN <<>>
  ELSE IF Head(s) \in RecognisedLabels
       THEN <<Head(s)>> \o KeepRecognised(Tail(s))
       ELSE KeepRecognised(Tail(s))

InterestsRecognisedInOrder ==
  \A c \in Calls :
    Returned(c) =>
      /\ Range(Plan(c).interests) \subseteq RecognisedLabels
      /\ Plan(c).interests =
           IF Range(Arg(c).interests) \cap RecognisedLabels = {}
           THEN <<"History", "Food", "Nature">>
           ELSE KeepRecognised(Arg(c).interests)

DefaultInterestsReturned ==
  \E c \in Calls :
    /\ Returned(c)
    /\ Arg(c).interests = <<"Shopping", "Shopping">>
    /\ Plan(c).interests = <<"History", "Food", "Nature">>

UnknownLabelDropped ==
  \E c \in Calls :
    /\ Returned(c)
    /\ Arg(c).interests = <<"Nature", "Shopping", "History">>
    /\ Plan(c).interests = <<"Nature", "History">>

\* C6 as claimed: no label occurs more than once in the interests field
InterestsDeduplicated ==
  \A c \in Calls : Returned(c) => NoRepeats(Plan(c).interests)

\* C6: the interests field is not deduplicated: when the caller supplies a
\* recognised label, every recognised label occurs in the field as often as
\* in the caller's list, unrecognised labels do not occur, and first
\* occurrences keep the caller's order
InterestsKeepRepeats ==
  \A c \in Calls :
    (Returned(c) /\ Range(Arg(c).interests) \cap RecognisedLabels # {}) =>
      /\ \A x \in RecognisedLabels :
           Count(Plan(c).interests, x) = Count(Arg(c).interests, x)
      /\ \A x \in Range(Arg(c).interests) \ RecognisedLabels :
           Count(Plan(c).interests, x) = 0
      /\ \A x, y \in Range(Plan(c).interests) :
           FirstIndex(Plan(c).interests, x) < FirstIndex(Plan(c).interests, y)
             <=> FirstIndex(Arg(c).interests, x) < FirstIndex(Arg(c).interests, y)

RepeatedInterestReturned ==
  \E c \in Calls :
    /\ Returned(c)
    /\ Arg(c).interests = <<"History", "Nature", "History">>
    /\ Plan(c).interests = <<"History", "Nature", "History">>

\* C7: highlight_text never holds the same interest label twice: it is the
\* distinct normalized interests in first-occurrence order, comma-joined
HighlightLabels(text) ==
  LET IsLabel(tok) == tok # ", "
  IN SelectSeq(text, IsLabel)

HighlightDeduplicated ==
  \A c \in Calls :
    Returned(c) =>
      LET text == Plan(c).highlight_text
          labels == HighlightLabels(text)
      IN /\ NoRepeats(labels)
         /\ Range(labels) = Range(Plan(c).interests)
         /\ \A i, j \in DOMAIN labels :
              i < j => FirstIndex(Plan(c).interests, labels[i])
                         < FirstIndex(Plan(c).interests, labels[j])
         /\ Len(text) = 2 * Len(labels) - 1
         /\ \A k \in DOMAIN text :
              IF k % 2 = 0 THEN text[k] = ", " ELSE text[k] = labels[(k + 1) \div 2]

RepeatedInterestHighlighted ==
  \E c \in Calls :
    /\ Returned(c)
    /\ Arg(c).interests = <<"Nature", "History", "Nature">>
    /\ Plan(c).highlight_text = <<"Nature", ", ", "History">>

\* the plan an invocation returns when nothing else runs: every slot and
\* every theme by position
PoolFor(a) ==
  SelectPool(_filter_by_interest(_normalize_interests(a.interests)),
             _extract_guardrail_rules(a.guardrails))

ItemAt(pool, i, j) ==
  SlotEntry(DEFAULT_DAILY_STRUCTURE[j],
            pool[(((i - 1) * NumSlots + (j - 1)) % Len(pool)) + 1])

ThemeAt(interests, i) == <<interests[((i - 1) % Len(interests)) + 1], " focus">>

PlanAlone(a) ==
  LET pool == PoolFor(a)
      interests == _normalize_interests(a.interests)
      DayAt(i) ==
        LET items == [j \in 1..NumSlots |-> ItemAt(pool, i, j)]
        IN [day |-> i, theme |-> ThemeAt(interests, i), items |-> items,
            daily_tip |-> _daily_tip(items, a.guardrails)]
  IN [destination |-> NormalizeDestination(a.destination),
      days |-> [i \in 1..SafeDays(ParseDays(a.days)) |-> DayAt(i)],
      interests |-> interests,
      guardrails |-> a.guardrails,
      guardrail_message |-> GuardrailMessage(a.guardrails),
      highlight_text |-> HighlightText(interests)]

\* C8: in any sequence or interleaving of invocations each one returns the
\* plan it returns when run alone; identical inputs give identical plans
InvocationsIndependent ==
  /\ \A c \in Calls : Returned(c) => Plan(c) = PlanAlone(Arg(c))
  /\ \A c, d \in Calls :
       (Returned(c) /\ Returned(d) /\ Arg(c) = Arg(d)) => Plan(c) = Plan(d)

InterleavedWithSameInputs ==
  /\ Returned(1)
  /\ pc[2] = "days"
  /\ Arg(2) = Arg(1)
  /\ Len(day_plans[2]) = 1
  /\ Len(slot_details[2]) = 1
  /\ Len(Plan(1).days) = 2

\* C9: the activity cycle is consumed once per slot and never reset between
\* days: slot j (0-based) of day i is a copy of pool[((i-1)*S + j) mod n]
ActivityCycleRunsOn ==
  \A c \in Calls :
    Returned(c) =>
      \A i \in DOMAIN Plan(c).days :
        \A j \in 1..NumSlots :
          Plan(c).days[i].items[j] = ItemAt(constrained_pool[c], i, j)

CycleCrossesDayBoundary ==
  \E c \in Calls :
    /\ Returned(c)
    /\ Len(constrained_pool[c]) = 5
    /\ Len(Plan(c).days) >= 4
    /\ Plan(c).days[2].items[1].name = constrained_pool[c][4].name
    /\ Plan(c).days[1].items[1].name # Plan(c).days[2].items[1].name

\* C10: the interest cycle advances once per day, whatever the pool size and
\* the number of slots: the theme of day i is interests[(i-1) mod m] + " focus"
ThemeRotatesPerDay ==
  \A c \in Calls :
    Returned(c) =>
      \A i \in DOMAIN Plan(c).days :
        Plan(c).days[i].theme = ThemeAt(Plan(c).interests, i)

ThemeWrapsAround ==
  \E c \in Calls :
    /\ Returned(c)
    /\ Len(Plan(c).interests) = 2
    /\ Len(Plan(c).days) >= 3
    /\ Plan(c).days[3].theme = Plan(c).days[1].theme
    /\ Plan(c).days[2].theme # Plan(c).days[1].theme

(***************************************************************************)
(* The selector's ladder, by catalog position.                             *)
(***************************************************************************)
CatalogIdx == DOMAIN ACTIVITY_LIBRARY

\* positions of the interest scope of an invocation: the activities of the
\* normalized interests, the whole catalog when there is none
ScopeIdx(c) ==
  LET hit == {k \in CatalogIdx :
                ACTIVITY_LIBRARY[k].category \in Range(normalized_interests[c])}
  IN IF hit = {} THEN CatalogIdx ELSE hit

RequiredTags(c) ==
  UNION {GUARDRAIL_RULES[g].require_tags :
           g \in Range(Arg(c).guardrails) \cap DOMAIN GUARDRAIL_RULES}

ExcludedTags(c) ==
  UNION {GUARDRAIL_RULES[g].exclude_tags :
           g \in Range(Arg(c).guardrails) \cap DOMAIN GUARDRAIL_RULES}

\* scope positions free of excluded tags
AllowedIdx(c) ==
  {k \in ScopeIdx(c) : ACTIVITY_LIBRARY[k].tags \cap ExcludedTags(c) = {}}

\* those of them that carry every required tag
MatchingIdx(c) ==
  {k \in AllowedIdx(c) : RequiredTags(c) \subseteq ACTIVITY_LIBRARY[k].tags}

\* the activities at the positions K, in catalog order
AtPositions(K) ==
  LET Chosen(activity) == \E k \in K : ACTIVITY_LIBRARY[k] = activity
  IN SelectSeq(ACTIVITY_LIBRARY, Chosen)

Selecting(c) == pc[c] \in {"days", "done"}

\* C11: the pool is (1) the interest scope filtered by excluded and required
\* tags if that is non-empty, (2) otherwise, with required tags present, the
\* scope filtered by excluded tags alone if that is non-empty, (3) otherwise
\* the entire catalog; always in catalog order
FallbackLadderOrder ==
  \A c \in Calls :
    Selecting(c) =>
      constrained_pool[c] =
        IF MatchingIdx(c) # {} THEN AtPositions(MatchingIdx(c))
        ELSE IF RequiredTags(c) # {} /\ AllowedIdx(c) # {}
             THEN AtPositions(AllowedIdx(c))
             ELSE ACTIVITY_LIBRARY

\* the required tags are given up while the interest scope is kept
RequireRelaxedScopeKept ==
  \E c \in Calls :
    /\ Returned(c)
    /\ MatchingIdx(c) = {}
    /\ RequiredTags(c) # {}
    /\ ScopeIdx(c) # CatalogIdx
    /\ constrained_pool[c] = AtPositions(AllowedIdx(c))
    /\ Len(constrained_pool[c]) = 2

\* the catalog activity an item was copied from
SourceOf(item) ==
  CHOOSE k \in CatalogIdx : ACTIVITY_LIBRARY[k].name = item.name

CarriesExcluded(c, item) ==
  ACTIVITY_LIBRARY[SourceOf(item)].tags \cap ExcludedTags(c) # {}

PlanItems(c) ==
  {Plan(c).days[i].items[j] : i \in DOMAIN Plan(c).days, j \in 1..NumSlots}

\* C13: when some activity of the interest scope carries no excluded tag, no
\* item of the plan comes from an activity carrying one; an item with an
\* excluded tag only comes from the final fallback to the whole catalog
ExcludedTagsHonoured ==
  \A c \in Calls :
    Returned(c) =>
      /\ AllowedIdx(c) # {} => \A item \in PlanItems(c) : ~CarriesExcluded(c, item)
      /\ (\E item \in PlanItems(c) : CarriesExcluded(c, item)) =>
           constrained_pool[c] = ACTIVITY_LIBRARY

\* required tags nobody meets, an excluded tag on part of the scope: the
\* retry keeps the exclusion
ExclusionKeptOnRetry ==
  \E c \in Calls :
    /\ Returned(c)
    /\ MatchingIdx(c) = {}
    /\ AllowedIdx(c) # {}
    /\ AllowedIdx(c) # ScopeIdx(c)
    /\ Len(Plan(c).days) >= 2
    /\ \A item \in PlanItems(c) : ~CarriesExcluded(c, item)

\* the response entry a parsed day was read from has no slots
EntryHasNoSlots(entry) ==
  \/ ~IsDict(entry)
  \/ entry.f.slots = JAbsent
  \/ entry.f.slots = JList(<<>>)

\* C12: _build_plan_from_json never fails: whatever the decoded response
\* (days or daily_plan absent, empty or a list of objects and non-objects,
\* slots absent, empty or holding non-objects, fields missing) no parser
\* frame ends in an error, the returned plan has the fields of the
\* ItineraryPlan schema, and a day without slots has one default entry per
\* daily slot
ParserNeverFails ==
  \A c \in Calls :
    /\ pc[c] # "error"
    /\ pc[c] = "done" =>
         /\ {"destination", "days", "interests", "guardrails",
             "guardrail_message", "highlight_text"} \subseteq DOMAIN Plan(c)
         /\ Len(Plan(c).days) = Len(AiEntries(c))
         /\ \A i \in DOMAIN Plan(c).days :
              EntryHasNoSlots(AiEntries(c)[i]) =>
                /\ Len(Plan(c).days[i].items) = NumSlots
                /\ \A j \in 1..NumSlots :
                     Plan(c).days[i].items[j].slot = JStr(DEFAULT_DAILY_STRUCTURE[j])

====
